---- MODULE Spec2Model ----
(***************************************************************************)
(* redshift-rs: the run modes of main.rs and the continual-mode control    *)
(* loop (run_continual_mode) with its ticker thread and signal thread,     *)
(* the TransitionScheme of transition.rs, and the GammaMethod calls.       *)
(*                                                                         *)
(* Spec is the program: the main thread, the ticker and the signal thread, *)
(* with the backend as a GammaMethod whose calls succeed or fail.          *)
(* SpecInterp applies get_period and interpolate_color_settings to schemes *)
(* and elevations drawn from bounded sets.  SpecScheme drives the short    *)
(* transition of a scheme by advances and re-arms in any order, SpecTick   *)
(* by the bodies of the timer branch and re-arms.  SpecRandr drives        *)
(* RandrState of gamma_randr.rs against the gamma ramps of an X server.    *)
(*                                                                         *)
(* Every f64 of main.rs and transition.rs is held as the f64 itself, in    *)
(* IEEE 754 binary64, next to the exact value of the same computation, a   *)
(* rational [n, d] in lowest terms with d > 0; NaN is the record with      *)
(* d = 0.  A value the program is given (a threshold, an elevation, a      *)
(* brightness or gamma argument) is the f64 nearest to the decimal it is   *)
(* written as.  The arithmetic, the comparisons, the clamps and the        *)
(* truncations are those of the f64.  The ramps of gamma_randr.rs are      *)
(* filled in exact rational arithmetic.                                    *)
(***************************************************************************)
EXTENDS Integers, Sequences, FiniteSets, TLC

VARIABLES
    mode,               \* args.mode
    ctl,                \* position of the main thread
    exit_code,          \* status given to process::exit, -1 while running
    exit_path,          \* how the run ended (history)
    exiting,            \* run_continual_mode: let mut exiting
    scheme,             \* the TransitionScheme owned by the control loop
    color_setting,      \* run_continual_mode: color_setting of the last tick
    prev_color_setting, \* run_continual_mode: prev_color_setting
    prev_period,        \* run_continual_mode: prev_period
    tpc,                \* position of the ticker thread
    sleep_req,          \* the ms value the control loop offers on sleep_tx
    sleep_ms,           \* the ms value the ticker received last
    spc,                \* position of the signal thread
    sig_pending,        \* signals buffered in the chan_signal channel
    sig_delivered,      \* signals the OS has delivered so far
    calls,              \* number of backend calls made, by operation
    last_call,          \* the last backend operation called
    last_set,           \* the last setting passed to set_temperature
    last_ok,            \* the last setting set_temperature accepted
    applied,            \* whether the last tick called set_temperature
    solar_elev,         \* the solar elevation computed last
    failed,             \* the backend call that returned Err, "none" if none
    op,                 \* the TransitionScheme operation applied last
    rpc,                \* RandrState: how far the backend has been driven
    server_version,     \* the RandR version the X server replies with
    crtcs,              \* RandrState.crtcs
    hw,                 \* the gamma ramps the X server holds, by CRTC id
    captured,           \* the ramps the server held when start() read them
    rsetting,           \* the setting of the last RandrState.set_temperature
    rcalls              \* RandrState calls that returned Ok, by operation

\* the RandR backend and the X server
randrVars == <<rpc, server_version, crtcs, hw, captured, rsetting, rcalls>>

\* state that only the specifications of the library parts change
libVars == <<op, randrVars>>

vars == <<mode, ctl, exit_code, exit_path, exiting, scheme, color_setting,
          prev_color_setting, prev_period, tpc, sleep_req, sleep_ms, spc,
          sig_pending, sig_delivered, calls, last_call, last_set, last_ok,
          applied, solar_elev, failed, libVars>>

-----------------------------------------------------------------------------
(* Bounds *)

\* the OS delivers at most this many INT/TERM signals in a run
MaxSignals == 2

\* the count of set_temperature calls saturates at this value
MaxSetCount == 2

\* the X server has at most this many CRTCs
MaxCrtcs == 2

\* the counts of successful RandrState calls saturate at this value
MaxRandrCalls == 2

-----------------------------------------------------------------------------
(* Exact values: rationals in lowest terms *)

RECURSIVE GCD(_, _)
GCD(a, b) == IF b = 0 THEN a ELSE GCD(b, a % b)

Abs(x) == IF x < 0 THEN -x ELSE x

NaN == [n |-> 0, d |-> 0]

Rat(n, d) ==
    LET s == IF d < 0 THEN -1 ELSE 1
        g == GCD(Abs(n), Abs(d))
    IN [n |-> (s * n) \div g, d |-> (s * d) \div g]

RInt(i) == [n |-> i, d |-> 1]

RAdd(a, b) == Rat(a.n * b.d + b.n * a.d, a.d * b.d)
RSub(a, b) == Rat(a.n * b.d - b.n * a.d, a.d * b.d)
RMul(a, b) == Rat(a.n * b.n, a.d * b.d)
RDiv(a, b) == Rat(a.n * b.d, a.d * b.n)
\* f64 <= and <: false whenever an operand is NaN
RLe(a, b) == a # NaN /\ b # NaN /\ a.n * b.d <= b.n * a.d
RLt(a, b) == a # NaN /\ b # NaN /\ a.n * b.d < b.n * a.d
\* f64::min and f64::max: when one operand is NaN the other is returned
RMin(a, b) ==
    IF a = NaN THEN b
    ELSE IF b = NaN THEN a
    ELSE IF RLe(a, b) THEN a ELSE b
RMax(a, b) ==
    IF a = NaN THEN b
    ELSE IF b = NaN THEN a
    ELSE IF RLe(a, b) THEN b ELSE a

\* `x as i32`: truncation toward zero
RTrunc(a) == IF a.n >= 0 THEN a.n \div a.d ELSE -((-a.n) \div a.d)

-----------------------------------------------------------------------------
(* f64 arithmetic with its rounding: IEEE 754 binary64, round to nearest,   *)
(* ties to even.  A finite f64 is [neg, m, e] with value (-1)^neg * m * 2^e *)
(* where m is a natural number of exactly 53 bits, or 0 for zero (e = 0).   *)
(* Natural numbers are sequences of limbs of 15 bits, least significant     *)
(* first, without leading zero limbs.  Exponent range, subnormals and -0.0  *)
(* are not modelled: the values here lie between 2^-60 and 2^31.            *)

LimbBits == 15
LimbBase == 2^LimbBits
MantBits == 53

RECURSIVE BigTrim(_)
BigTrim(x) ==
    IF x = <<>> THEN x
    ELSE IF x[Len(x)] = 0 THEN BigTrim(SubSeq(x, 1, Len(x) - 1)) ELSE x

BigFromInt(i) ==
    BigTrim(<<i % LimbBase, (i \div LimbBase) % LimbBase,
              i \div (LimbBase * LimbBase)>>)

RECURSIVE BigToInt(_)
BigToInt(x) == IF x = <<>> THEN 0 ELSE Head(x) + LimbBase * BigToInt(Tail(x))

RECURSIVE BigAddC(_, _, _)
BigAddC(x, y, c) ==
    IF y = <<>> /\ c = 0 THEN x
    ELSE IF x = <<>> /\ c = 0 THEN y
    ELSE IF x = <<>> /\ y = <<>> THEN <<c>>
    ELSE LET a == IF x = <<>> THEN 0 ELSE Head(x)
             b == IF y = <<>> THEN 0 ELSE Head(y)
             t == a + b + c
         IN <<t % LimbBase>> \o BigAddC(IF x = <<>> THEN x ELSE Tail(x),
                                        IF y = <<>> THEN y ELSE Tail(y),
                                        t \div LimbBase)

BigAdd(x, y) == BigAddC(x, y, 0)

\* x - y - c for x >= y + c, before trimming
RECURSIVE BigSubC(_, _, _)
BigSubC(x, y, c) ==
    IF x = <<>> \/ (y = <<>> /\ c = 0) THEN x
    ELSE LET b == IF y = <<>> THEN 0 ELSE Head(y)
             t == Head(x) - b - c
         IN <<t % LimbBase>> \o BigSubC(Tail(x),
                                        IF y = <<>> THEN y ELSE Tail(y),
                                        IF t < 0 THEN 1 ELSE 0)

BigSub(x, y) == BigTrim(BigSubC(x, y, 0))

\* -1, 0, 1 as x < y, x = y, x > y
RECURSIVE BigCmp(_, _)
BigCmp(x, y) ==
    IF Len(x) # Len(y) THEN (IF Len(x) < Len(y) THEN -1 ELSE 1)
    ELSE IF x = <<>> THEN 0
    ELSE IF x[Len(x)] # y[Len(y)] THEN (IF x[Len(x)] < y[Len(y)] THEN -1 ELSE 1)
    ELSE BigCmp(SubSeq(x, 1, Len(x) - 1), SubSeq(y, 1, Len(y) - 1))

\* x * k + c for 0 <= k < LimbBase
RECURSIVE BigMulC(_, _, _)
BigMulC(x, k, c) ==
    IF x = <<>> THEN (IF c = 0 THEN <<>> ELSE <<c>>)
    ELSE LET t == Head(x) * k + c
         IN <<t % LimbBase>> \o BigMulC(Tail(x), k, t \div LimbBase)

BigMulSmall(x, k) == BigTrim(BigMulC(x, k, 0))

\* x * y, limb by limb of y
RECURSIVE BigMul(_, _)
BigMul(x, y) ==
    IF x = <<>> \/ y = <<>> THEN <<>>
    ELSE IF Head(y) = 0 THEN <<0>> \o BigMul(x, Tail(y))
    ELSE BigAdd(BigMulSmall(x, Head(y)), BigTrim(<<0>> \o BigMul(x, Tail(y))))

\* quotient and remainder of x by k for 0 < k < LimbBase, from the top limb
RECURSIVE BigDivR(_, _, _)
BigDivR(x, k, r) ==
    IF x = <<>> THEN [q |-> <<>>, r |-> r]
    ELSE LET t == r * LimbBase + x[Len(x)]
             rest == BigDivR(SubSeq(x, 1, Len(x) - 1), k, t % k)
         IN [q |-> Append(rest.q, t \div k), r |-> rest.r]

\* the quotient of d without its leading zero limbs
BigTrimQ(d) == [q |-> BigTrim(d.q), r |-> d.r]

BigDivSmall(x, k) == BigTrimQ(BigDivR(x, k, 0))

RECURSIVE BigZeros(_)
BigZeros(n) == IF n = 0 THEN <<>> ELSE <<0>> \o BigZeros(n - 1)

\* x * 2^n
BigShl(x, n) ==
    IF x = <<>> \/ n = 0 THEN x
    ELSE IF n % LimbBits = 0 THEN BigZeros(n \div LimbBits) \o x
    ELSE BigZeros(n \div LimbBits) \o BigMulSmall(x, 2^(n % LimbBits))

\* floor(x / 2^n)
BigShr(x, n) ==
    IF n = 0 THEN x
    ELSE IF n \div LimbBits >= Len(x) THEN <<>>
    ELSE IF n % LimbBits = 0 THEN SubSeq(x, n \div LimbBits + 1, Len(x))
    ELSE BigDivSmall(SubSeq(x, n \div LimbBits + 1, Len(x)), 2^(n % LimbBits)).q

RECURSIVE IntBitLen(_)
IntBitLen(i) ==
    IF i >= 256 THEN 8 + IntBitLen(i \div 256)
    ELSE IF i >= 16 THEN 4 + IntBitLen(i \div 16)
    ELSE IF i >= 4 THEN 2 + IntBitLen(i \div 4)
    ELSE IF i >= 2 THEN 2 ELSE i

BigBitLen(x) ==
    IF x = <<>> THEN 0 ELSE LimbBits * (Len(x) - 1) + IntBitLen(x[Len(x)])

BigOdd(x) == x # <<>> /\ Head(x) % 2 = 1

RECURSIVE IntTz(_)
IntTz(i) == IF i % 2 = 1 THEN 0 ELSE 1 + IntTz(i \div 2)

\* the number of zero bits at the low end of x, x not zero
RECURSIVE BigTz(_)
BigTz(x) == IF Head(x) = 0 THEN LimbBits + BigTz(Tail(x)) ELSE IntTz(Head(x))

F64Zero == [neg |-> FALSE, m |-> <<>>, e |-> 0]

\* q, or q + 1 when what was cut off q is above one half, or is one half
\* and q is odd: half tells that the highest bit cut off is set, more that
\* a bit below it is
F64Nearest(q, half, more) ==
    IF half /\ (more \/ BigOdd(q)) THEN BigAdd(q, <<1>>) ELSE q

\* the f64 of a rounded significand q1 at exponent e: 53 bits, or 2^53
F64Carry(neg, q1, e) ==
    IF BigBitLen(q1) > MantBits
    THEN [neg |-> neg, m |-> BigShr(q1, 1), e |-> e + 1]
    ELSE [neg |-> neg, m |-> q1, e |-> e]

\* n of more than 53 bits, of which s are cut off: t is n without its s - 1
\* low bits
F64RoundCut(neg, n, e, s, t) ==
    F64Carry(neg, F64Nearest(BigShr(t, 1), BigOdd(t), BigTz(n) < s - 1), e + s)

\* n of len bits
F64RoundLen(neg, n, e, len) ==
    IF len = 0 THEN F64Zero
    ELSE IF len = MantBits THEN [neg |-> neg, m |-> n, e |-> e]
    ELSE IF len < MantBits
    THEN [neg |-> neg, m |-> BigShl(n, MantBits - len), e |-> e - (MantBits - len)]
    ELSE F64RoundCut(neg, n, e, len - MantBits, BigShr(n, len - MantBits - 1))

\* the f64 nearest to (-1)^neg * n * 2^e, ties to even
F64Round(neg, n, e) == F64RoundLen(neg, n, e, BigBitLen(n))

\* `i as f64` for an integer below 2^31
F64FromInt(i) == F64Round(i < 0, BigFromInt(Abs(i)), 0)

F64Neg(a) == IF a.m = <<>> THEN a ELSE [a EXCEPT !.neg = ~a.neg]

\* exponents further apart than this leave the larger operand unchanged
F64AlignMax == 60

\* (-1)^na * x + (-1)^nb * y at the exponent e: the sum of equal signs, else
\* the difference with the sign of the larger
F64AddMag(na, x, nb, y, e) ==
    F64Round(IF na = nb \/ BigCmp(x, y) > 0 THEN na ELSE nb,
             IF na = nb THEN BigAdd(x, y)
             ELSE IF BigCmp(x, y) > 0 THEN BigSub(x, y) ELSE BigSub(y, x),
             e)

\* a + b at the smaller exponent e0 of the two
F64AddAt(a, b, e0) ==
    F64AddMag(a.neg, BigShl(a.m, a.e - e0), b.neg, BigShl(b.m, b.e - e0), e0)

\* a + b
F64Add(a, b) ==
    IF a.m = <<>> THEN b
    ELSE IF b.m = <<>> THEN a
    ELSE IF a.e - b.e > F64AlignMax THEN a
    ELSE IF b.e - a.e > F64AlignMax THEN b
    ELSE F64AddAt(a, b, IF a.e < b.e THEN a.e ELSE b.e)

\* a - b
F64Sub(a, b) == F64Add(a, F64Neg(b))

\* a * (k as f64) for an integer k with |k| < LimbBase
F64MulInt(a, k) == F64Round(a.neg # (k < 0), BigMulSmall(a.m, Abs(k)), a.e)

\* a * b
F64Mul(a, b) == F64Round(a.neg # b.neg, BigMul(a.m, b.m), a.e + b.e)

\* bits the dividend is extended by before the division
F64DivExtra == 60

\* the f64 nearest to a quotient: d.q its integer part at exponent e + 1,
\* one more bit below it tells a remainder from none
F64Quot(neg, d, e) ==
    F64Round(neg, BigAddC(BigMulSmall(d.q, 2), <<>>, IF d.exact THEN 0 ELSE 1), e)

\* one more bit of a quotient: 1 and t taken off s.r where t fits, else 0
BigDivTake(s, t) ==
    IF BigCmp(s.r, t) >= 0
    THEN [q |-> BigAddC(BigMulSmall(s.q, 2), <<>>, 1), r |-> BigSub(s.r, t)]
    ELSE [q |-> BigMulSmall(s.q, 2), r |-> s.r]

\* bit i of a quotient by y: s.q holds the bits above it, s.r what is left
\* of the dividend, s.r < y * 2^(i + 1)
BigDivStep(s, y, i) == BigDivTake(s, BigShl(y, i))

\* quotient and remainder, bit by bit from bit i of the quotient down; each
\* step is taken as a value before the next one starts
RECURSIVE BigDivBits(_, _, _)
BigDivBits(s, y, i) ==
    IF i < 0 THEN s
    ELSE CHOOSE res \in { BigDivBits(BigDivStep(v, w, j), w, j - 1) :
                          v \in {s}, w \in {y}, j \in {i} } : TRUE

\* quotient of x by y and whether nothing is left, by limbs where y is one
\* limb
BigQuot(x, y) ==
    IF Len(y) = 1
    THEN CHOOSE res \in { [q |-> d.q, exact |-> d.r = 0] :
                          d \in {BigDivSmall(x, y[1])} } : TRUE
    ELSE CHOOSE res \in { [q |-> d.q, exact |-> d.r = <<>>] :
                          d \in {BigDivBits([q |-> <<>>, r |-> x], y,
                                            BigBitLen(x) - BigBitLen(y))} } : TRUE

\* a / (k as f64) for an integer k with 0 < |k| < LimbBase
F64DivInt(a, k) ==
    F64Quot(a.neg # (k < 0), BigQuot(BigShl(a.m, F64DivExtra), <<Abs(k)>>),
            a.e - F64DivExtra - 1)

\* a / b for b not zero: the significand of b without its low zero bits
\* divides the extended significand of a
F64Div(a, b) ==
    IF a.m = <<>> THEN F64Zero
    ELSE F64Quot(a.neg # b.neg,
                 BigQuot(BigShl(a.m, F64DivExtra), BigShr(b.m, BigTz(b.m))),
                 a.e - F64DivExtra - 1 - (b.e + BigTz(b.m)))

\* a <= b: by sign, then by exponent and significand
F64Le(a, b) ==
    IF a.m = <<>> THEN b.m = <<>> \/ ~b.neg
    ELSE IF b.m = <<>> THEN a.neg
    ELSE IF a.neg # b.neg THEN a.neg
    ELSE LET c == IF a.e # b.e THEN (IF a.e < b.e THEN -1 ELSE 1)
                  ELSE BigCmp(a.m, b.m)
         IN IF a.neg THEN c >= 0 ELSE c <= 0

\* `a as i32`: truncation toward zero, for |a| < 2^31
F64Trunc(a) ==
    LET q == IF a.e >= 0 THEN BigShl(a.m, a.e) ELSE BigShr(a.m, -a.e)
    IN IF a.neg THEN -BigToInt(q) ELSE BigToInt(q)

-----------------------------------------------------------------------------
(* A computed value is held as the f64 of the program, field f, together    *)
(* with the exact value [n, d] of the same computation.  The comparisons,   *)
(* f64::max, f64::min and the truncation to i32 are made on the f64; the    *)
(* exact value is what the R operators read.  The operators take their      *)
(* operands as values, once, and give NaN when an operand is NaN.           *)

DVal(r, f) == [n |-> r.n, d |-> r.d, f |-> f]

\* the f64 of a value that is not NaN
F64Of(a) == a.f

\* f64 ==: NaN is equal to nothing
DEq(a, b) == a # NaN /\ b # NaN /\ F64Of(a) = F64Of(b)

\* the exact value
RVal(a) == [n |-> a.n, d |-> a.d]

\* `i as f64`
DInt(i) == DVal(RInt(i), F64FromInt(i))

\* the decimal literal n/d: the f64 nearest to it
DLit(n, d) == DVal(Rat(n, d), F64DivInt(F64FromInt(n), d))

DAdd(a, b) ==
    CHOOSE res \in { IF x = NaN \/ y = NaN THEN NaN
                     ELSE DVal(RAdd(x, y), F64Add(x.f, y.f)) :
                     x \in {a}, y \in {b} } : TRUE
DSub(a, b) ==
    CHOOSE res \in { IF x = NaN \/ y = NaN THEN NaN
                     ELSE DVal(RSub(x, y), F64Sub(x.f, y.f)) :
                     x \in {a}, y \in {b} } : TRUE
DMul(a, b) ==
    CHOOSE res \in { IF x = NaN \/ y = NaN THEN NaN
                     ELSE DVal(RMul(x, y), F64Mul(x.f, y.f)) :
                     x \in {a}, y \in {b} } : TRUE
\* a / b for b not zero
DDiv(a, b) ==
    CHOOSE res \in { IF x = NaN \/ y = NaN THEN NaN
                     ELSE DVal(RDiv(x, y), F64Div(x.f, y.f)) :
                     x \in {a}, y \in {b} } : TRUE
DMulInt(a, k) ==
    CHOOSE res \in { IF x = NaN THEN NaN
                     ELSE DVal(RMul(x, RInt(k)), F64MulInt(x.f, k)) :
                     x \in {a} } : TRUE
DDivInt(a, k) ==
    CHOOSE res \in { IF x = NaN THEN NaN
                     ELSE DVal(RDiv(x, RInt(k)), F64DivInt(x.f, k)) :
                     x \in {a} } : TRUE
\* the literals 0.0, 1.0 and 0.1
DZero == DInt(0)
DOne == DInt(1)
DTenth == DLit(1, 10)

\* f64 <= and <: false whenever an operand is NaN
DLe(a, b) == \E x \in {a}, y \in {b} : x # NaN /\ y # NaN /\ F64Le(x.f, y.f)
DLt(a, b) == \E x \in {a}, y \in {b} : x # NaN /\ y # NaN /\ ~F64Le(y.f, x.f)
\* f64::max and f64::min: when one operand is NaN the other is returned
DMax(a, b) ==
    CHOOSE res \in { IF x = NaN THEN y
                     ELSE IF y = NaN THEN x
                     ELSE IF F64Le(x.f, y.f) THEN y ELSE x :
                     x \in {a}, y \in {b} } : TRUE
DMin(a, b) ==
    CHOOSE res \in { IF x = NaN THEN y
                     ELSE IF y = NaN THEN x
                     ELSE IF F64Le(x.f, y.f) THEN x ELSE y :
                     x \in {a}, y \in {b} } : TRUE

\* `a as i32`: truncation toward zero, NaN gives 0
DTrunc(a) ==
    CHOOSE res \in { IF x = NaN THEN 0 ELSE F64Trunc(x.f) : x \in {a} } : TRUE

-----------------------------------------------------------------------------
(* Program constants *)

NEUTRAL_TEMP == 6500
DEFAULT_DAY_TEMP == 5500
DEFAULT_NIGHT_TEMP == 3500
CIVIL_TWILIGHT_ELEV == DInt(-6)

ShortDelayMs == 100
LongDelayMs == 5000

\* args.temperatures, args.brightness and args.gamma as run() receives them
ArgSets ==
    { [temperatures |-> <<NEUTRAL_TEMP, NEUTRAL_TEMP>>,
       brightness |-> <<DInt(1), DInt(1)>>, gamma |-> DInt(1)],
      [temperatures |-> <<5501, 3501>>,
       brightness |-> <<DInt(1), DLit(1, 2)>>, gamma |-> DLit(4, 5)],
      [temperatures |-> <<DEFAULT_DAY_TEMP, DEFAULT_NIGHT_TEMP>>,
       brightness |-> <<DInt(1), DInt(1)>>, gamma |-> DInt(1)] }

\* solar elevations a tick may compute: night, half way through the
\* transition, two thirds through it (a progress that is no f64), day
Elevations == { DInt(-7), DLit(-3, 2), DInt(0), DInt(4) }

\* the temperatures of Mode::Manual(temp)
ManualTemps == { 4000 }

\* Mode
Modes == { [tag |-> m, temp |-> 0] : m \in { "Continual", "OneShot", "Print", "Reset" } }
         \cup { [tag |-> "Manual", temp |-> t] : t \in ManualTemps }

-----------------------------------------------------------------------------
(* transition.rs *)

\* ColorSetting::new(): the uninitialized sentinel
ColorSettingNew == [temp |-> -1, gamma |-> <<NaN, NaN, NaN>>, brightness |-> NaN]

\* color_setting != prev_color_setting
ColorSettingNe(a, b) ==
    ~ ( /\ a.temp = b.temp
        /\ \A i \in 1..3 : DEq(a.gamma[i], b.gamma[i])
        /\ DEq(a.brightness, b.brightness) )

\* variant: a scheme that starts with the short transition inactive
TransitionSchemeNew_NoFade ==
    [ high |-> DInt(3),
      low |-> CIVIL_TWILIGHT_ELEV,
      day |-> ColorSettingNew,
      night |-> ColorSettingNew,
      short_trans_delta |-> 0,
      short_trans_len |-> 10,
      adjustment_alpha |-> DInt(1) ]

\* TransitionScheme::new()
TransitionSchemeNew ==
    [ high |-> DInt(3),
      low |-> CIVIL_TWILIGHT_ELEV,
      day |-> ColorSettingNew,
      night |-> ColorSettingNew,
      short_trans_delta |-> -1,
      short_trans_len |-> 10,
      adjustment_alpha |-> DInt(1) ]

\* run(): the scheme filled in from the arguments
SchemeFromArgs(a) ==
    [ TransitionSchemeNew EXCEPT
        !.day = [temp |-> a.temperatures[1], gamma |-> <<a.gamma, a.gamma, a.gamma>>,
                 brightness |-> a.brightness[1]],
        !.night = [temp |-> a.temperatures[2], gamma |-> <<a.gamma, a.gamma, a.gamma>>,
                   brightness |-> a.brightness[2]] ]

\* variant: the weights of the two settings exchanged
Blend_Swapped(alpha, x, y) ==
    DAdd(DMul(alpha, x), DMul(DSub(DOne, alpha), y))

\* (1.0-alpha) * x + alpha * y
Blend(alpha, x, y) ==
    DAdd(DMul(DSub(DOne, alpha), x), DMul(alpha, y))

\* (self.low - elevation) / (self.low - self.high), for low # high
Progress(s, elevation) ==
    DDiv(DSub(s.low, elevation), DSub(s.low, s.high))

\* variant: the blend factor is not clamped to [0.0, 1.0]
interpolate_color_settings_NoClamp(s, elevation) ==
    CHOOSE res \in
        { [ temp |-> DTrunc(Blend(alpha, DInt(s.night.temp), DInt(s.day.temp))),
            brightness |-> Blend(alpha, s.night.brightness, s.day.brightness),
            gamma |-> << Blend(alpha, s.night.gamma[1], s.day.gamma[1]),
                         Blend(alpha, s.night.gamma[2], s.day.gamma[2]),
                         Blend(alpha, s.night.gamma[3], s.day.gamma[3]) >> ] :
          alpha \in { Progress(s, elevation) } } : TRUE

\* al is the progress, alpha its clamp al.min(1.0).max(0.0)
interpolate_color_settings(s, elevation) ==
    CHOOSE res \in
        { [ temp |-> DTrunc(Blend(alpha, DInt(s.night.temp), DInt(s.day.temp))),
            brightness |-> Blend(alpha, s.night.brightness, s.day.brightness),
            gamma |-> << Blend(alpha, s.night.gamma[1], s.day.gamma[1]),
                         Blend(alpha, s.night.gamma[2], s.day.gamma[2]),
                         Blend(alpha, s.night.gamma[3], s.day.gamma[3]) >> ] :
          alpha \in { DMax(DMin(Progress(s, elevation), DOne), DZero) } } : TRUE

PeriodNone == [tag |-> "None", t |-> NaN]

\* variant: the two thresholds belong to Night and Day
get_period_Closed(s, elevation) ==
    IF DLe(elevation, s.low) THEN [tag |-> "Night", t |-> NaN]
    ELSE IF DLe(s.high, elevation) THEN [tag |-> "Day", t |-> NaN]
    ELSE [tag |-> "Transition", t |-> Progress(s, elevation)]

get_period(s, elevation) ==
    IF DLt(elevation, s.low) THEN [tag |-> "Night", t |-> NaN]
    ELSE IF DLt(s.high, elevation) THEN [tag |-> "Day", t |-> NaN]
    ELSE [tag |-> "Transition", t |-> Progress(s, elevation)]

short_transition(s) == s.short_trans_delta # 0

\* variant: the step ignores short_trans_len
adjust_transition_alpha_NoLen(s) ==
    LET a == DAdd(s.adjustment_alpha,
                  DMulInt(DTenth, s.short_trans_delta))
        done == DLe(a, DZero) \/ DLe(DOne, a)
    IN [ s EXCEPT
           !.short_trans_delta = IF done THEN 0 ELSE @,
           !.adjustment_alpha = DMin(DMax(a, DZero), DOne) ]

\* variant: the direction of the step is taken from the test delta > 0
adjust_transition_alpha_SignTest(s) ==
    LET a == DAdd(s.adjustment_alpha,
                  DDivInt(DMulInt(DTenth,
                                  IF s.short_trans_delta > 0 THEN 1 ELSE -1),
                          s.short_trans_len))
        done == DLe(a, DZero) \/ DLe(DOne, a)
    IN [ s EXCEPT
           !.short_trans_delta = IF done THEN 0 ELSE @,
           !.adjustment_alpha = DMin(DMax(a, DZero), DOne) ]

\* variant: the stepped value is stored as it is, without the clamp
adjust_transition_alpha_NoClamp(s) ==
    LET a == DAdd(s.adjustment_alpha,
                  DDivInt(DMulInt(DTenth, s.short_trans_delta),
                          s.short_trans_len))
        done == DLe(a, DZero) \/ DLe(DOne, a)
    IN [ s EXCEPT
           !.short_trans_delta = IF done THEN 0 ELSE @,
           !.adjustment_alpha = a ]

\* adjustment_alpha += short_trans_delta as f64 * 0.1 / short_trans_len as f64,
\* the end test and the clamp
adjust_transition_alpha(s) ==
    LET a == DAdd(s.adjustment_alpha,
                  DDivInt(DMulInt(DTenth, s.short_trans_delta),
                          s.short_trans_len))
        done == DLe(a, DZero) \/ DLe(DOne, a)
    IN [ s EXCEPT
           !.short_trans_delta = IF done THEN 0 ELSE @,
           !.adjustment_alpha = DMin(DMax(a, DZero), DOne) ]

-----------------------------------------------------------------------------
(* main.rs: run_continual_mode, the pieces of the control loop *)

\* variant: the signal branch arms a transition with delta -1
SignalArm_Negative(s) ==
    [ s EXCEPT !.short_trans_delta = -1,
               !.short_trans_len = 2,
               !.adjustment_alpha = DTenth ]

\* variant: the signal branch does not reset adjustment_alpha
SignalArm_KeepAlpha(s) ==
    [ s EXCEPT !.short_trans_delta = 1,
               !.short_trans_len = 2 ]

\* variant: the signal branch takes the first fade step itself
SignalArm_StepsAtOnce(s) ==
    adjust_transition_alpha([ s EXCEPT !.short_trans_delta = 1,
                                       !.short_trans_len = 2,
                                       !.adjustment_alpha = DTenth ])

\* the signal branch arms the short transition
SignalArm(s) ==
    [ s EXCEPT !.short_trans_delta = 1,
               !.short_trans_len = 2,
               !.adjustment_alpha = DTenth ]

\* variant: the loop is left by a return that skips restore()
AfterLoopPc_NoRestore == "exited"

\* where the main thread goes when the loop is left by break
AfterLoopPc == "restore"

\* variant: a signal while exiting does not break
SignalNextPc_NoBreak(ex) == "select"

\* variant: the signal branch re-arms the timer
SignalNextPc_Rearm(ex) == IF ex THEN AfterLoopPc ELSE "send_sleep"

\* the signal branch: break if already exiting, else back to chan_select
SignalNextPc(ex) == IF ex THEN AfterLoopPc ELSE "select"

\* the blend toward neutral while a short transition is ongoing
ShortBlend(s, cs) ==
    [ cs EXCEPT
        !.temp = F64Trunc(F64Add(F64MulInt(s.adjustment_alpha.f, NEUTRAL_TEMP),
                                 F64MulInt(F64Sub(DOne.f, s.adjustment_alpha.f),
                                           cs.temp))),
        !.brightness =
            DVal(RAdd(RMul(s.adjustment_alpha, RInt(1)),
                      RMul(RSub(RInt(1), s.adjustment_alpha), cs.brightness)),
                 F64Add(F64Mul(s.adjustment_alpha.f, DOne.f),
                        F64Mul(F64Sub(DOne.f, s.adjustment_alpha.f),
                               F64Of(cs.brightness)))) ]

\* the scheme after the tick's "Ongoing short transition?" block
TickScheme(s) == IF short_transition(s) THEN adjust_transition_alpha(s) ELSE s

\* variant: the blend toward neutral is applied on every tick
TickSettingOf_BlendAlways(s, sch, elev) ==
    ShortBlend(sch, interpolate_color_settings(s, elev))

\* the candidate color setting of a tick that starts with the scheme s and
\* has the scheme sch after its "Ongoing short transition?" block
TickSettingOf(s, sch, elev) ==
    IF short_transition(s)
    THEN ShortBlend(sch, interpolate_color_settings(s, elev))
    ELSE interpolate_color_settings(s, elev)

\* the candidate color setting of a tick
TickSetting(s, elev) == TickSettingOf(s, TickScheme(s), elev)

\* whether the tick calls set_temperature
TickApplies(cs, prev) == ColorSettingNe(cs, prev)

\* variant: the loop is never left from the timer branch
TickBreaks_Never(ex, s) == FALSE

\* if exiting && !scheme.short_transition() { break }
TickBreaks(ex, s) == ex /\ ~short_transition(s)

\* variant: the two delays swapped
NextDelay_Swapped(s) == IF short_transition(s) THEN LongDelayMs ELSE ShortDelayMs

\* Sleep for 5 seconds or 0.1 second
NextDelay(s) == IF short_transition(s) THEN ShortDelayMs ELSE LongDelayMs

\* variant: the failing tick is skipped and the loop carries on
SetFailedPc_Retry == "send_sleep"

\* where the main thread goes when set_temperature fails inside the loop
SetFailedPc == "exited"

\* variant: the temperature is saved only when it was applied with a new temp
SavedSetting_TempOnly(pc, cs, prev) ==
    IF pc = "send_sleep" /\ cs.temp # prev.temp THEN cs ELSE prev

\* Save temperature: after the send of a tick's request
SavedSetting(pc, cs, prev) == IF pc = "send_sleep" THEN cs ELSE prev

\* variant: the result of start() is ignored
StartNextPc_Ignore(ok, m) == IF m.tag = "Continual" THEN "send0" ELSE "apply"

\* variant: outside continual mode the result of start() is dropped
StartNextPc_ApplyAnyway(ok, m) ==
    IF m.tag # "Continual" THEN "apply"
    ELSE IF ok THEN "send0" ELSE "exited"

\* gamma_state.start()?: an error leaves run_continual_mode and run
StartNextPc(ok, m) ==
    IF ~ok THEN "exited"
    ELSE IF m.tag = "Continual" THEN "send0" ELSE "apply"

\* variant: the single-shot modes restore the ramps before returning
ApplyNextPc_Restore == "restore"

\* where run() goes after the set_temperature of Reset, OneShot and Manual
ApplyNextPc == "exited"

\* one more set_temperature call counted
CountSet(c) == [c EXCEPT !.set = IF @ < MaxSetCount THEN @ + 1 ELSE @]

-----------------------------------------------------------------------------
(* Initial state: main() has parsed the arguments and calls run() *)

NoCalls == [start |-> 0, set |-> 0, restore |-> 0]

\* no X connection made
RandrIdle ==
    /\ rpc = "none"
    /\ server_version = <<0, 0>>
    /\ crtcs = <<>>
    /\ hw = <<>>
    /\ captured = <<>>
    /\ rsetting = ColorSettingNew
    /\ rcalls = [set |-> 0, restore |-> 0]

\* no TransitionScheme operation applied on its own, no X connection made
LibIdle == op = "none" /\ RandrIdle

Init ==
    /\ mode \in Modes
    /\ \E a \in ArgSets : scheme = SchemeFromArgs(a)
    /\ ctl = "run"
    /\ exit_code = -1
    /\ exit_path = "none"
    /\ exiting = FALSE
    /\ color_setting = ColorSettingNew
    /\ prev_color_setting = ColorSettingNew
    /\ prev_period = PeriodNone
    /\ tpc = "unspawned"
    /\ spc = "unspawned"
    /\ sleep_req = 0
    /\ sleep_ms = 0
    /\ sig_pending = 0
    /\ sig_delivered = 0
    /\ calls = NoCalls
    /\ last_call = "none"
    /\ last_set = ColorSettingNew
    /\ last_ok = ColorSettingNew
    /\ applied = FALSE
    /\ solar_elev = NaN
    /\ failed = "none"
    /\ LibIdle

loopVars == <<exiting, scheme, prev_color_setting, prev_period>>
threadVars == <<tpc, sleep_req, sleep_ms, spc, sig_pending, sig_delivered>>
backendVars == <<calls, last_call, last_set, last_ok>>

\* a tick of the control loop: the timer_rx branch of chan_select is taken
TickStep == ctl = "select" /\ tpc = "send" /\ tpc' = "recv"

\* the signal branch of chan_select is taken
SignalStep == ctl = "select" /\ spc = "send" /\ spc' = "iter"

-----------------------------------------------------------------------------
(* run(): the match on args.mode up to the backend initialisation *)

Run ==
    /\ ctl = "run"
    /\ \/ /\ mode.tag = "Reset"
          /\ color_setting' = [temp |-> NEUTRAL_TEMP,
                               gamma |-> <<DInt(1), DInt(1), DInt(1)>>,
                               brightness |-> DInt(1)]
          /\ ctl' = "init"
          /\ UNCHANGED <<exit_code, exit_path, solar_elev>>
       \/ /\ mode.tag = "OneShot"
          /\ \E elev \in Elevations :
                /\ solar_elev' = elev
                /\ color_setting' = interpolate_color_settings(scheme, elev)
          /\ ctl' = "init"
          /\ UNCHANGED <<exit_code, exit_path>>
       \/ /\ mode.tag = "Print"
          /\ \E elev \in Elevations :
                /\ solar_elev' = elev
                /\ color_setting' = interpolate_color_settings(scheme, elev)
          /\ ctl' = "exited"
          /\ exit_code' = 0
          /\ exit_path' = "print"
       \/ /\ mode.tag = "Manual"
          /\ color_setting' = [temp |-> mode.temp,
                               gamma |-> scheme.day.gamma,
                               brightness |-> scheme.day.brightness]
          /\ ctl' = "init"
          /\ UNCHANGED <<exit_code, exit_path, solar_elev>>
       \/ /\ mode.tag = "Continual"
          /\ ctl' = "init"
          /\ UNCHANGED <<color_setting, exit_code, exit_path, solar_elev>>
    /\ UNCHANGED <<mode, libVars, loopVars, threadVars, backendVars, applied,
                   failed>>

\* gamma::init_gamma_method(..)?
InitGammaMethod ==
    /\ ctl = "init"
    /\ \E ok \in BOOLEAN :
          IF ok
          THEN /\ ctl' = "start"
               /\ UNCHANGED <<exit_code, exit_path>>
          ELSE /\ ctl' = "exited"
               /\ exit_code' = 1
               /\ exit_path' = "init_failed"
    /\ failed' = IF ctl' = "exited" THEN "init" ELSE failed
    /\ UNCHANGED <<mode, libVars, color_setting, loopVars, threadVars,
                   backendVars, applied, solar_elev>>

\* gamma_state.start()?; in continual mode the two threads are spawned and
\* the main thread goes on to sleep_tx.send(0)
Start ==
    /\ ctl = "start"
    /\ calls' = [calls EXCEPT !.start = @ + 1]
    /\ last_call' = "start"
    /\ \E ok \in BOOLEAN :
          /\ ctl' = StartNextPc(ok, mode)
          /\ exit_path' = IF ok THEN exit_path ELSE "start_failed"
          /\ exit_code' = IF ctl' = "exited" THEN 1 ELSE exit_code
          /\ failed' = IF ok THEN failed ELSE "start"
    /\ IF ctl' = "send0"
       THEN /\ tpc' = "recv"
            /\ spc' = "iter"
            /\ sleep_req' = 0
       ELSE UNCHANGED <<tpc, spc, sleep_req>>
    /\ UNCHANGED <<mode, libVars, color_setting, loopVars, sleep_ms,
                   sig_pending, sig_delivered, last_set, last_ok, applied,
                   solar_elev>>

\* Reset, OneShot and Manual: gamma_state.set_temperature(&color_setting)?
ApplyOnce ==
    /\ ctl = "apply"
    /\ calls' = CountSet(calls)
    /\ last_call' = "set"
    /\ last_set' = color_setting
    /\ \E ok \in BOOLEAN :
          IF ok
          THEN /\ last_ok' = color_setting
               /\ exit_code' = 0
               /\ exit_path' = "oneshot"
               /\ failed' = failed
          ELSE /\ last_ok' = last_ok
               /\ exit_code' = 1
               /\ exit_path' = "set_failed"
               /\ failed' = "set"
    /\ ctl' = IF failed' = "none" THEN ApplyNextPc ELSE "exited"
    /\ UNCHANGED <<mode, libVars, color_setting, loopVars, threadVars, applied,
                   solar_elev>>

-----------------------------------------------------------------------------
(* run_continual_mode: the ticker thread *)

\* variant: the initial request is followed by a second send
SleepRequest_Twice ==
    /\ ctl \in {"send0", "send_sleep"}
    /\ tpc = "recv"
    /\ tpc' = "sleeping"
    /\ sleep_ms' = sleep_req
    /\ prev_color_setting' = SavedSetting(ctl, color_setting, prev_color_setting)
    /\ ctl' = IF ctl = "send0" THEN "send_sleep" ELSE "select"
    /\ UNCHANGED <<mode, libVars, exit_code, exit_path, exiting, scheme, color_setting,
                   prev_period, sleep_req, spc, sig_pending, sig_delivered,
                   backendVars, applied, solar_elev, failed>>

\* sleep_tx.send(ms) meets the ticker's sleep_rx receive; after the send of a
\* tick's request the loop saves the temperature
SleepRequest ==
    /\ ctl \in {"send0", "send_sleep"}
    /\ tpc = "recv"
    /\ tpc' = "sleeping"
    /\ sleep_ms' = sleep_req
    /\ prev_color_setting' = SavedSetting(ctl, color_setting, prev_color_setting)
    /\ ctl' = "select"
    /\ UNCHANGED <<mode, libVars, exit_code, exit_path, exiting, scheme, color_setting,
                   prev_period, sleep_req, spc, sig_pending, sig_delivered,
                   backendVars, applied, solar_elev, failed>>

\* variant: the ticker advances the short transition when it wakes
TickerWake_Advances ==
    /\ ctl # "exited"
    /\ tpc = "sleeping"
    /\ tpc' = "send"
    /\ scheme' = TickScheme(scheme)
    /\ UNCHANGED <<mode, libVars, ctl, exit_code, exit_path, color_setting,
                   exiting, prev_color_setting, prev_period,
                   sleep_req, sleep_ms, spc, sig_pending, sig_delivered,
                   backendVars, applied, solar_elev, failed>>

\* thread::sleep(ms) returns; the ticker offers a tick on timer_tx
TickerWake ==
    /\ ctl # "exited"
    /\ tpc = "sleeping"
    /\ tpc' = "send"
    /\ UNCHANGED <<mode, libVars, ctl, exit_code, exit_path, color_setting, loopVars,
                   sleep_req, sleep_ms, spc, sig_pending, sig_delivered,
                   backendVars, applied, solar_elev, failed>>

-----------------------------------------------------------------------------
(* run_continual_mode: the signal thread *)

\* the OS delivers INT or TERM; chan_signal buffers it.  Signals are taken
\* from the registration by chan_signal::notify on, i.e. once start() has
\* succeeded in continual mode.
OsSignal ==
    /\ ctl # "exited"
    /\ spc # "unspawned"
    /\ sig_delivered < MaxSignals
    /\ sig_delivered' = sig_delivered + 1
    /\ sig_pending' = sig_pending + 1
    /\ UNCHANGED <<mode, libVars, ctl, exit_code, exit_path, color_setting, loopVars,
                   tpc, sleep_req, sleep_ms, spc, backendVars, applied,
                   solar_elev, failed>>

\* for sig in sigint.iter(): the thread takes a signal and offers it on signal_tx
SignalIter ==
    /\ ctl # "exited"
    /\ spc = "iter"
    /\ sig_pending > 0
    /\ sig_pending' = sig_pending - 1
    /\ spc' = "send"
    /\ UNCHANGED <<mode, libVars, ctl, exit_code, exit_path, color_setting, loopVars,
                   tpc, sleep_req, sleep_ms, sig_delivered, backendVars,
                   applied, solar_elev, failed>>

-----------------------------------------------------------------------------
(* run_continual_mode: the two branches of chan_select *)

\* signal_rx.recv() -> _signal
Signal ==
    /\ ctl = "select"
    /\ spc = "send"
    /\ spc' = "iter"
    /\ ctl' = SignalNextPc(exiting)
    /\ IF exiting
       THEN /\ exit_path' = "forced"
            /\ UNCHANGED <<exiting, scheme>>
       ELSE /\ exiting' = TRUE
            /\ scheme' = SignalArm(scheme)
            /\ UNCHANGED exit_path
    /\ sleep_req' = IF ctl' = "send_sleep" THEN NextDelay(scheme') ELSE sleep_req
    /\ UNCHANGED <<mode, libVars, exit_code, color_setting, prev_color_setting,
                   prev_period, tpc, sleep_ms, sig_pending, sig_delivered,
                   backendVars, applied, solar_elev, failed>>

\* timer_rx.recv(): one tick of the loop, up to the break, the failure of
\* set_temperature or the call of sleep_tx.send
Tick ==
    /\ ctl = "select"
    /\ tpc = "send"
    /\ tpc' = "recv"
    /\ \E sch \in {TickScheme(scheme)}, elev \in Elevations :
       \E cs \in {TickSettingOf(scheme, sch, elev)} :
          LET period == get_period(scheme, elev)
              applies == TickApplies(cs, prev_color_setting)
          IN \E ok \in BOOLEAN :
             /\ solar_elev' = elev
             /\ prev_period' = period
             /\ color_setting' = cs
             /\ scheme' = sch
             /\ applied' = applies
             /\ IF applies
                THEN /\ calls' = CountSet(calls)
                     /\ last_call' = "set"
                     /\ last_set' = cs
                     /\ last_ok' = IF ok THEN cs ELSE last_ok
                ELSE UNCHANGED backendVars
             /\ IF applies /\ ~ok
                THEN /\ ctl' = SetFailedPc
                     /\ exit_path' = "set_failed"
                     /\ exit_code' = IF SetFailedPc = "exited" THEN 1 ELSE exit_code
                     /\ failed' = "set"
                     /\ UNCHANGED sleep_req
                ELSE IF TickBreaks(exiting, sch)
                THEN /\ ctl' = AfterLoopPc
                     /\ exit_path' = "fade"
                     /\ UNCHANGED <<exit_code, sleep_req, failed>>
                ELSE /\ ctl' = "send_sleep"
                     /\ sleep_req' = NextDelay(sch)
                     /\ UNCHANGED <<exit_code, exit_path, failed>>
    /\ UNCHANGED <<mode, libVars, exiting, prev_color_setting, sleep_ms, spc,
                   sig_pending, sig_delivered>>

\* gamma_state.restore()?; Ok(()) and main's process::exit
Restore ==
    /\ ctl = "restore"
    /\ calls' = [calls EXCEPT !.restore = @ + 1]
    /\ last_call' = "restore"
    /\ \E ok \in BOOLEAN :
          /\ exit_code' = IF ok THEN 0 ELSE 1
          /\ failed' = IF ok THEN failed ELSE "restore"
    /\ ctl' = "exited"
    /\ UNCHANGED <<mode, libVars, exit_path, color_setting, loopVars,
                   threadVars, last_set, last_ok, applied, solar_elev>>

-----------------------------------------------------------------------------
(* The processes of main.rs *)

Next ==
    \/ Run
    \/ InitGammaMethod
    \/ Start
    \/ ApplyOnce
    \/ SleepRequest
    \/ TickerWake
    \/ OsSignal
    \/ SignalIter
    \/ Signal
    \/ Tick
    \/ Restore

Spec == Init /\ [][Next]_vars

\* The program under fair scheduling.  The three threads are OS threads that
\* keep running, so a step that stays possible is eventually taken; OsSignal
\* is the environment and has no fairness.  The signal branch is possible
\* only while the main thread is at its select, which every tick interrupts,
\* but chan_select takes a ready branch and the main thread waits at the
\* select for the whole sleep of the ticker, so a signal that is offered
\* again and again is eventually received: strong fairness for Signal.
\* Tick is possible exactly when the main thread is at its select and the
\* ticker is sending, and every Tick step ends that, so weak fairness of Tick
\* is the condition that a ready tick does not stay ready for ever.
FairSpec ==
    /\ Spec
    /\ WF_vars(SleepRequest)
    /\ WF_vars(TickerWake)
    /\ WF_vars(SignalIter)
    /\ SF_vars(Signal)
    /\ []<>(~(ctl = "select" /\ tpc = "send"))
    /\ WF_vars(Restore)

-----------------------------------------------------------------------------
(* transition.rs on its own: get_period and interpolate_color_settings      *)
(* applied to schemes and elevations drawn from bounded sets                *)

\* day/night settings of the schemes: those of ArgSets, a pair of
\* temperatures whose blend loses 1K to the rounding, and a day colder than
\* the night
InterpArgSets ==
    ArgSets \cup
    { [temperatures |-> <<6400, 1000>>,
       brightness |-> <<DInt(1), DInt(1)>>, gamma |-> DInt(1)],
      [temperatures |-> <<DEFAULT_NIGHT_TEMP, DEFAULT_DAY_TEMP>>,
       brightness |-> <<DLit(1, 2), DInt(1)>>, gamma |-> DInt(1)] }

\* <<low, high>> of the schemes, high > low; the first is TransitionScheme::new()
Thresholds ==
    { <<CIVIL_TWILIGHT_ELEV, DInt(3)>>, <<DInt(-4), DInt(4)>>, <<DInt(0), DInt(2)>> }

\* elevations: below, at, between and above the thresholds
InterpElevations ==
    { DInt(-7), DInt(-6), DLit(-26, 5), DLit(-15, 4), DLit(-3, 2), DInt(0), DLit(3, 4),
      DInt(1), DInt(2), DInt(3), DInt(4), DInt(5) }

\* the scheme of run() with its public thresholds set
SchemeWith(a, th) == [ SchemeFromArgs(a) EXCEPT !.low = th[1], !.high = th[2] ]

\* every variable of the main thread, the threads and the backend at rest
MainIdle ==
    /\ mode = [tag |-> "Print", temp |-> 0]
    /\ ctl = "run"
    /\ exit_code = -1
    /\ exit_path = "none"
    /\ exiting = FALSE
    /\ prev_color_setting = ColorSettingNew
    /\ tpc = "unspawned"
    /\ spc = "unspawned"
    /\ sleep_req = 0
    /\ sleep_ms = 0
    /\ sig_pending = 0
    /\ sig_delivered = 0
    /\ calls = NoCalls
    /\ last_call = "none"
    /\ last_set = ColorSettingNew
    /\ last_ok = ColorSettingNew
    /\ applied = FALSE
    /\ failed = "none"

mainIdleVars == <<mode, ctl, exit_code, exit_path, exiting, prev_color_setting,
                  threadVars, backendVars, applied, failed>>

InterpInit ==
    /\ MainIdle
    /\ \E a \in InterpArgSets, th \in Thresholds : scheme = SchemeWith(a, th)
    /\ color_setting = ColorSettingNew
    /\ prev_period = PeriodNone
    /\ solar_elev = NaN
    /\ op = "new"
    /\ RandrIdle

\* scheme.get_period(elev) and scheme.interpolate_color_settings(elev), as
\* the Print and OneShot modes and every tick call them
Interpolate ==
    /\ \E elev \in InterpElevations :
          /\ solar_elev' = elev
          /\ prev_period' = get_period(scheme, elev)
          /\ color_setting' = interpolate_color_settings(scheme, elev)
    /\ op' = "interpolate"
    /\ UNCHANGED <<mainIdleVars, scheme, randrVars>>

InterpNext == Interpolate

SpecInterp == InterpInit /\ [][InterpNext]_vars

-----------------------------------------------------------------------------
(* transition.rs on its own: the short transition of a scheme driven by any *)
(* sequence of advances and re-arms by the signal handler, and by any        *)
(* sequence of tick bodies and re-arms                                       *)

SchemeInit ==
    /\ MainIdle
    /\ \E a \in ArgSets : scheme = SchemeFromArgs(a)
    /\ color_setting = ColorSettingNew
    /\ prev_period = PeriodNone
    /\ solar_elev = NaN
    /\ op = "new"
    /\ RandrIdle

\* scheme.adjust_transition_alpha()
Advance ==
    /\ scheme' = adjust_transition_alpha(scheme)
    /\ op' = "advance"
    /\ UNCHANGED <<mainIdleVars, color_setting, prev_period, solar_elev,
                   randrVars>>

\* the assignments of the signal branch to the scheme
Rearm ==
    /\ scheme' = SignalArm(scheme)
    /\ op' = "rearm"
    /\ UNCHANGED <<mainIdleVars, color_setting, prev_period, solar_elev,
                   randrVars>>

\* the timer branch from solar::elevation to the short-transition block
TickBody ==
    /\ \E sch \in {TickScheme(scheme)}, elev \in Elevations :
          /\ scheme' = sch
          /\ solar_elev' = elev
          /\ prev_period' = get_period(scheme, elev)
          /\ color_setting' = TickSettingOf(scheme, sch, elev)
    /\ op' = "tick"
    /\ UNCHANGED <<mainIdleVars, randrVars>>

SchemeNext ==
    \/ Advance
    \/ Rearm

SpecScheme == SchemeInit /\ [][SchemeNext]_vars

TickNext ==
    \/ Rearm
    \/ TickBody

SpecTick == SchemeInit /\ [][TickNext]_vars

-----------------------------------------------------------------------------
(* gamma_randr.rs: RandrState against an X server, driven in the order of   *)
(* run(): init, start, set_temperature any number of times, restore         *)

RANDR_MAJOR_VERSION == 1
RANDR_MINOR_VERSION == 3

\* <<major, minor>> versions an X server may reply with
ServerVersions == { <<1, 2>>, <<1, 3>>, <<1, 5>>, <<2, 0>> }

\* the (red, green, blue) ramps a CRTC may hold when redshift starts: the
\* identity ramp of size 2 and a calibrated ramp of size 3
InitialRamps ==
    { << <<0, 32768>>, <<0, 32768>>, <<0, 32768>> >>,
      << <<0, 30000, 60000>>, <<0, 25000, 50000>>, <<0, 20000, 45000>> >> }

\* the settings passed to set_temperature
RandrSettings ==
    { [temp |-> NEUTRAL_TEMP, gamma |-> <<RInt(1), RInt(1), RInt(1)>>,
       brightness |-> RInt(1)],
      [temp |-> DEFAULT_NIGHT_TEMP, gamma |-> <<RInt(1), RInt(1), RInt(1)>>,
       brightness |-> RInt(1)],
      [temp |-> DEFAULT_NIGHT_TEMP,
       gamma |-> <<Rat(4, 5), Rat(4, 5), Rat(4, 5)>>,
       brightness |-> Rat(1, 2)] }

\* variant: only the major version of the reply is tested
query_version_MajorOnly(v) == ~ (v[1] # RANDR_MAJOR_VERSION)

\* query_version: whether the reply is accepted
query_version(v) ==
    ~ (v[1] # RANDR_MAJOR_VERSION \/ v[2] < RANDR_MINOR_VERSION)

\* RandrState::init(): Ok, or the RandrError it returns
InitResult(conn_ok, reply_ok, v) ==
    IF ~conn_ok THEN "conn_error"
    ELSE IF ~reply_ok THEN "xcb_error"
    ELSE IF ~query_version(v) THEN "unsupported_version"
    ELSE "inited"

\* the white point of a temperature: entries of the blackbody table
WhitePoint(temp) ==
    IF temp = NEUTRAL_TEMP THEN <<RInt(1), RInt(1), RInt(1)>>
    ELSE <<RInt(1), Rat(7, 10), Rat(2, 5)>>

\* one ramp value: base * multiplier * gamma * brightness, clamped to u16
FillValue(base, m, g, b) ==
    LET v == RTrunc(RMul(RMul(RInt(base), m), RMul(g, b)))
    IN IF v > 65535 THEN 65535 ELSE IF v < 0 THEN 0 ELSE v

\* colorramp::colorramp_fill(r, g, b, setting, size)
colorramp_fill(ramps, setting) ==
    LET wp == WhitePoint(setting.temp)
        fill(c) == [ i \in 1..Len(ramps[c]) |->
                       FillValue(ramps[c][i], wp[c], setting.gamma[c],
                                 setting.brightness) ]
    IN << fill(1), fill(2), fill(3) >>

\* the ramp set_crtc_temperature writes over the cloned ramps:
\* ((i / ramp_size) * 65536) as u16
LinearRamps(len, ramp_size) ==
    LET u16(x) == IF x > 65535 THEN 65535 ELSE x
        v == [ i \in 1..len |-> u16(((i - 1) * 65536) \div ramp_size) ]
    IN << v, v, v >>

\* variant: the ramps are derived from the ramps the CRTC holds now
set_crtc_temperature_FromCurrent(setting, crtc) ==
    colorramp_fill(hw[crtc.id], setting)

\* set_crtc_temperature: the ramps handed to set_crtc_gamma_checked
set_crtc_temperature(setting, crtc) ==
    colorramp_fill(LinearRamps(Len(crtc.saved_ramps[1]), crtc.ramp_size),
                   setting)

\* variant: restore writes the identity ramps
RestoredRamps_Linear(crtc) ==
    LinearRamps(Len(crtc.saved_ramps[1]), crtc.ramp_size)

\* restore: the ramps handed to set_crtc_gamma_checked
RestoredRamps(crtc) == crtc.saved_ramps

\* start: the Crtc pushed for a get_crtc_gamma reply
CrtcOf(id, gamma) ==
    [ id |-> id, ramp_size |-> Len(gamma[1]), saved_ramps |-> gamma ]

CountRandr(c, f) ==
    [ c EXCEPT ![f] = IF @ < MaxRandrCalls THEN @ + 1 ELSE @ ]

RandrSpecInit ==
    /\ MainIdle
    /\ scheme = TransitionSchemeNew
    /\ color_setting = ColorSettingNew
    /\ prev_period = PeriodNone
    /\ solar_elev = NaN
    /\ op = "none"
    /\ rpc = "none"
    /\ server_version \in ServerVersions
    /\ crtcs = <<>>
    /\ \E n \in 1..MaxCrtcs : hw \in [1..n -> InitialRamps]
    /\ captured = <<>>
    /\ rsetting = ColorSettingNew
    /\ rcalls = [set |-> 0, restore |-> 0]

randrFrame == <<mainIdleVars, scheme, color_setting, prev_period, solar_elev,
                op, server_version>>

\* RandrState::init()
RandrInit ==
    /\ rpc = "none"
    /\ \E conn_ok \in BOOLEAN, reply_ok \in BOOLEAN :
          rpc' = InitResult(conn_ok, reply_ok, server_version)
    /\ crtcs' = <<>>
    /\ UNCHANGED <<randrFrame, hw, captured, rsetting, rcalls>>

\* start(): get_screen_resources, then get_crtc_gamma for each CRTC; the
\* first k replies arrive
RandrStart ==
    /\ rpc = "inited"
    /\ \E res_ok \in BOOLEAN, k \in 0..Len(hw) :
          /\ crtcs' = IF res_ok
                      THEN [ i \in 1..k |-> CrtcOf(i, hw[i]) ]
                      ELSE crtcs
          /\ rpc' = IF res_ok /\ k = Len(hw) THEN "started" ELSE "failed"
    /\ captured' = hw
    /\ UNCHANGED <<randrFrame, hw, rsetting, rcalls>>

\* set_temperature(setting): the first k set_crtc_gamma_checked requests
\* are accepted
RandrSetTemperature ==
    /\ rpc \in {"started", "set"}
    /\ \E setting \in RandrSettings, k \in 0..Len(crtcs) :
          /\ rsetting' = setting
          /\ hw' = [ id \in 1..Len(hw) |->
                       IF id <= k THEN set_crtc_temperature(setting, crtcs[id])
                       ELSE hw[id] ]
          /\ rpc' = IF k = Len(crtcs) THEN "set" ELSE "failed"
          /\ rcalls' = IF k = Len(crtcs) THEN CountRandr(rcalls, "set")
                       ELSE rcalls
    /\ UNCHANGED <<randrFrame, crtcs, captured>>

\* restore(): the first k set_crtc_gamma_checked requests are accepted
RandrRestore ==
    /\ rpc \in {"started", "set", "restored"}
    /\ \E k \in 0..Len(crtcs) :
          /\ hw' = [ id \in 1..Len(hw) |->
                       IF id <= k THEN RestoredRamps(crtcs[id]) ELSE hw[id] ]
          /\ rpc' = IF k = Len(crtcs) THEN "restored" ELSE "failed"
          /\ rcalls' = IF k = Len(crtcs) THEN CountRandr(rcalls, "restore")
                       ELSE rcalls
    /\ UNCHANGED <<randrFrame, crtcs, captured, rsetting>>

RandrNext ==
    \/ RandrInit
    \/ RandrStart
    \/ RandrSetTemperature
    \/ RandrRestore

SpecRandr == RandrSpecInit /\ [][RandrNext]_vars

-----------------------------------------------------------------------------
(* Properties *)

Alpha == scheme.adjustment_alpha

\* the f64 of a pair is its exact value to within a ten-thousandth
TracksExact(a) ==
    LET parts == F64Trunc(F64MulInt(a.f, 10000))
        exact == RTrunc(RMul(a, RInt(10000)))
    IN parts \in {exact - 1, exact}
Continual == mode.tag = "Continual"
LoopLeftByBreak == exit_path \in {"fade", "forced"}

\* C1: when the continual loop is left by fade completion or by a second
\* signal, restore() is called exactly once before the process exits, and no
\* backend call follows it.
C1_RestoreOnceOnBreak ==
    /\ calls.restore <= 1
    /\ (LoopLeftByBreak /\ ctl = "exited") => calls.restore = 1
    /\ (LoopLeftByBreak /\ ctl # "exited") => (ctl = "restore" /\ calls.restore = 0)
    /\ calls.restore = 1 => (last_call = "restore" /\ ctl = "exited")

C1_Witness ==
    /\ ctl = "exited" /\ exit_path = "fade"
    /\ calls.restore = 1 /\ last_call = "restore"

\* C2 (as claimed): when set_temperature fails on a tick of the continual
\* loop, restore() has been called exactly once when the process exits.
C2_RestoreOnSetFailure ==
    (Continual /\ ctl = "exited" /\ exit_path = "set_failed") => calls.restore = 1

\* C3 (as claimed): the first signal arms the shutdown transition with
\* short_trans_delta = -1, short_trans_len = 2 and adjustment_alpha = 0.1,
\* stays in the loop and calls nothing on the backend.
C3_Original ==
    [][ (SignalStep /\ ~exiting) =>
          /\ exiting'
          /\ scheme'.short_trans_delta = -1
          /\ scheme'.short_trans_len = 2
          /\ scheme'.adjustment_alpha = DLit(1, 10)
          /\ ctl' = "select"
          /\ calls' = calls ]_vars

\* C3 (amended): the first signal arms the shutdown transition with
\* short_trans_delta = +1, short_trans_len = 2 and adjustment_alpha = 0.1,
\* stays in the loop and calls nothing on the backend.
C3_SignalArmsFade ==
    [][ (SignalStep /\ ~exiting) =>
          /\ exiting'
          /\ scheme'.short_trans_delta = 1
          /\ scheme'.short_trans_len = 2
          /\ scheme'.adjustment_alpha = DLit(1, 10)
          /\ ctl' = "select"
          /\ calls' = calls ]_vars

\* the state right after a first signal that interrupted the startup fade
C3_Witness ==
    /\ exiting /\ ctl = "select" /\ calls.restore = 0
    /\ scheme.short_trans_delta = 1 /\ scheme.short_trans_len = 2
    /\ Alpha = DLit(1, 10)
    /\ tpc = "sleeping" /\ sleep_ms = ShortDelayMs

\* C4: a signal received while exiting leaves the loop at once: no tick is
\* awaited, and the next backend call is restore(), with no set_temperature
\* call in between.
C4_SecondSignalForcesExit ==
    [][ /\ (SignalStep /\ exiting) =>
              (ctl' = "restore" /\ calls' = calls /\ tpc' = tpc /\ scheme' = scheme)
        /\ ctl = "restore" =>
              /\ ctl' \in {"restore", "exited"}
              /\ calls'.set = calls.set
              /\ last_set' = last_set
              /\ ctl' = "exited" => calls'.restore = calls.restore + 1 ]_vars

\* a forced exit that bypassed a fade still in progress
C4_Witness ==
    /\ ctl = "exited" /\ exit_path = "forced"
    /\ scheme.short_trans_delta # 0
    /\ calls.restore = 1

\* C5 (as claimed): on every tick in Exiting adjustment_alpha decreases by
\* 0.05 (down to 0).
C5_Original ==
    [][ (TickStep /\ exiting) =>
          RVal(scheme'.adjustment_alpha) = RMax(RSub(Alpha, Rat(1, 20)), RInt(0)) ]_vars

\* C5 (amended): on every tick in Exiting adjustment_alpha increases by 0.05
\* (delta +1, len 2, starting from 0.1) until it is >= 1; on that tick, and
\* on no earlier one, the loop terminates (unless set_temperature failed),
\* and restore() is then called exactly once.
C5_FadeSteps ==
    /\ [][ (TickStep /\ exiting) =>
             /\ RVal(scheme'.adjustment_alpha) = RMin(RAdd(Alpha, Rat(1, 20)), RInt(1))
             /\ exit_path' # "set_failed" =>
                   (ctl' = "restore" <=> scheme'.adjustment_alpha = DInt(1)) ]_vars
    /\ [] ( (exit_path = "fade" /\ ctl = "exited") =>
               (Alpha = DInt(1) /\ calls.restore = 1) )

C5_Witness ==
    /\ ctl = "exited" /\ exit_path = "fade"
    /\ sig_delivered = 1
    /\ Alpha = DInt(1) /\ calls.restore = 1 /\ exit_code = 0

\* C6: on ticks in Exiting the weight adjustment_alpha of the neutral
\* setting never decreases, and when the loop exits by fade completion the
\* last setting passed to set_temperature is 6500K with brightness 1.0.
C6_FadeTowardNeutral ==
    /\ [][ (exiting /\ exiting') => DLe(Alpha, scheme'.adjustment_alpha) ]_vars
    /\ [] ( exit_path = "fade" =>
               /\ last_set.temp = NEUTRAL_TEMP
               /\ F64Of(last_set.brightness) = F64FromInt(1)
               /\ RVal(last_set.brightness) = RInt(1) )

C6_Witness ==
    /\ exit_path = "fade"
    /\ scheme.night.temp # NEUTRAL_TEMP
    /\ scheme.night.brightness # DInt(1)
    /\ last_set.temp = NEUTRAL_TEMP /\ F64Of(last_set.brightness) = F64FromInt(1)

\* C7: a tick calls set_temperature exactly when its candidate setting
\* differs from the remembered one, the two compared as the f64 values the
\* program holds; the remembered one is the sentinel before
\* the first tick, so the first tick applies; at every later tick it is the
\* last setting set_temperature accepted.
C7_ApplyIffChanged ==
    /\ (ctl = "send_sleep" \/ exit_path = "fade") =>
          /\ applied <=> ColorSettingNe(color_setting, prev_color_setting)
          /\ prev_color_setting = ColorSettingNew => applied
    /\ (Continual /\ prev_period = PeriodNone) =>
          (prev_color_setting = ColorSettingNew /\ calls.set = 0)
    /\ (Continual /\ prev_period # PeriodNone) => calls.set >= 1
    /\ (ctl = "select" /\ prev_period # PeriodNone) =>
          ~ColorSettingNe(prev_color_setting, last_ok)
    /\ (Continual /\ exit_path # "set_failed") => last_set = last_ok

\* a tick of the exit fade that applied a setting whose temperature, gammas
\* and exact brightness are those of the remembered one: the two f64
\* brightness values differ in their last bits
C7_Witness ==
    /\ ctl = "send_sleep" /\ applied /\ exiting
    /\ calls.set >= 2
    /\ color_setting.temp = prev_color_setting.temp
    /\ color_setting.gamma = prev_color_setting.gamma
    /\ RVal(color_setting.brightness) = RVal(prev_color_setting.brightness)
    /\ F64Of(color_setting.brightness) # F64Of(prev_color_setting.brightness)

\* C8: the first request asks for 0 ms; after a tick that stays in the loop
\* the request is 100 ms if the short transition is still active after the
\* tick's advance, else 5000 ms.
C8_NextDelay ==
    /\ ctl = "send0" => sleep_req = 0
    /\ (tpc \in {"sleeping", "send"} /\ prev_period = PeriodNone) => sleep_ms = 0
    /\ ctl = "send_sleep" =>
          sleep_req = IF scheme.short_trans_delta # 0 THEN 100 ELSE 5000
    /\ (tpc \in {"sleeping", "send"} /\ prev_period # PeriodNone /\ ~exiting) =>
          sleep_ms = IF scheme.short_trans_delta # 0 THEN 100 ELSE 5000

\* the startup fade has completed and the loop asks for the long delay
C8_Witness ==
    /\ ctl = "send_sleep" /\ sleep_req = 5000 /\ sleep_ms = 100
    /\ scheme.short_trans_delta = 0

\* timer requests issued by the control loop whose tick it has not received
Outstanding ==
    (IF ctl \in {"send0", "send_sleep"} THEN 1 ELSE 0)
    + (IF tpc \in {"sleeping", "send"} THEN 1 ELSE 0)

\* C9: at most one timer request is outstanding: the control loop issues a
\* request only when the ticker has delivered the tick of the previous one.
C9_SingleOutstandingRequest ==
    /\ Outstanding <= 1
    /\ ctl \in {"send0", "send_sleep"} => tpc = "recv"
    /\ ctl = "select" => tpc \in {"sleeping", "send"}

C9_Witness ==
    /\ ctl = "send_sleep" /\ tpc = "recv" /\ exiting
    /\ Outstanding = 1

\* C10: if backend initialisation or start() fails in continual mode, the
\* loop is not entered: no set_temperature, no restore(), no tick, no thread,
\* and the process exits with status 1.
C10_StartFailureIsFatal ==
    (Continual /\ exit_path \in {"init_failed", "start_failed"}) =>
        /\ ctl = "exited" /\ exit_code = 1
        /\ calls.set = 0 /\ calls.restore = 0
        /\ prev_period = PeriodNone
        /\ tpc = "unspawned" /\ spc = "unspawned"

C10_Witness ==
    /\ Continual /\ exit_path = "start_failed"
    /\ ctl = "exited" /\ exit_code = 1 /\ calls.start = 1

-----------------------------------------------------------------------------
\* C11: a backend failure is fatal and never retried.  Once a backend call
\* has returned Err the process has exited with status 1, and from then on
\* no tick is processed and no backend operation is called again (so a
\* failed set_temperature is not repeated and a failed restore is the only
\* restore).  A run that exits without any backend failure exits with 0.
C11_FailureIsFatal ==
    /\ [](failed # "none" => ctl = "exited" /\ exit_code = 1)
    /\ [](ctl = "exited" /\ failed = "none" => exit_code = 0)
    /\ [](failed = "restore" => calls.restore = 1)
    /\ [][failed # "none" =>
             UNCHANGED <<calls, last_call, last_set, color_setting, scheme,
                         prev_period, solar_elev>>]_vars

\* set_temperature failed on a later tick of the loop, after an accepted one
C11_Witness ==
    /\ Continual
    /\ failed = "set"
    /\ calls.set = 2
    /\ last_ok # ColorSettingNew
    /\ exit_code = 1

-----------------------------------------------------------------------------
\* the loop has been entered and has processed neither a tick nor a signal
BeforeFirstTick == Continual /\ prev_period = PeriodNone /\ ~exiting

\* C12 as stated: the scheme handed to the continual loop has
\* adjustment_alpha = 1.0 and short_trans_delta = 0, so the short transition
\* is inactive on the first tick.
C12_Original ==
    BeforeFirstTick /\ ctl \in {"send0", "select"} =>
        /\ scheme.adjustment_alpha = DInt(1)
        /\ scheme.short_trans_delta = 0

\* C12 (amended): the scheme handed to the continual loop has
\* adjustment_alpha = 1.0, short_trans_delta = -1 and short_trans_len = 10,
\* so the short transition is active on the first tick: that tick advances
\* alpha to 0.99 and applies the interpolation blended toward neutral with
\* weight 0.99 (temperature and brightness), its gammas unblended.
C12_StartupFade ==
    /\ [](BeforeFirstTick =>
             /\ scheme.adjustment_alpha = DInt(1)
             /\ scheme.short_trans_delta = -1
             /\ scheme.short_trans_len = 10)
    /\ [][TickStep /\ BeforeFirstTick =>
             LET ip == interpolate_color_settings(scheme, solar_elev')
             IN /\ RVal(scheme'.adjustment_alpha) = Rat(99, 100)
                /\ applied'
                /\ last_set'.temp = (99 * NEUTRAL_TEMP + ip.temp) \div 100
                /\ RVal(last_set'.brightness) =
                      Rat(99 * ip.brightness.d + ip.brightness.n,
                          100 * ip.brightness.d)
                /\ TracksExact(last_set'.brightness)
                /\ last_set'.gamma = ip.gamma]_vars

\* the first tick has applied a setting that is neither neutral nor the
\* interpolation for its elevation
C12_Witness ==
    /\ Continual /\ ~exiting
    /\ calls.set = 1
    /\ RVal(scheme.adjustment_alpha) = Rat(99, 100)
    /\ last_set.temp # NEUTRAL_TEMP
    /\ last_set.temp # interpolate_color_settings(scheme, solar_elev).temp

-----------------------------------------------------------------------------
\* get_period and interpolate_color_settings have been applied to the scheme
\* at solar_elev
Interpolated == op = "interpolate"

\* C15: get_period is exact at the boundaries for every scheme with
\* high > low: an elevation equal to low gives Transition(0), equal to high
\* gives Transition(1), below low gives Night, above high gives Day, and an
\* elevation in [low, high] gives Transition(t) where t is the f64 quotient
\* (low - elevation) / (low - high), 0 <= t <= 1, within a ten-thousandth
\* of the exact quotient.
C15_PeriodBoundaries ==
    Interpolated /\ RLt(scheme.low, scheme.high) =>
        /\ solar_elev = scheme.low =>
              prev_period = [tag |-> "Transition", t |-> DInt(0)]
        /\ solar_elev = scheme.high =>
              prev_period = [tag |-> "Transition", t |-> DInt(1)]
        /\ RLt(solar_elev, scheme.low) => prev_period.tag = "Night"
        /\ RLt(scheme.high, solar_elev) => prev_period.tag = "Day"
        /\ RLe(scheme.low, solar_elev) /\ RLe(solar_elev, scheme.high) =>
              /\ prev_period.tag = "Transition"
              /\ RMul(RVal(prev_period.t), RSub(scheme.low, scheme.high))
                    = RSub(scheme.low, solar_elev)
              /\ prev_period.t.f =
                    F64Div(F64Sub(F64Of(scheme.low), F64Of(solar_elev)),
                           F64Sub(F64Of(scheme.low), F64Of(scheme.high)))
              /\ TracksExact(prev_period.t)
              /\ DLe(DZero, prev_period.t) /\ DLe(prev_period.t, DOne)

\* get_period was applied at the upper threshold of a scheme
C15_Witness ==
    /\ Interpolated
    /\ solar_elev = scheme.high
    /\ prev_period.tag = "Transition"
    /\ RVal(prev_period.t) = RInt(1)
    /\ prev_period.t.f = F64FromInt(1)

\* C16: interpolate_color_settings clamps the blend factor: for every
\* elevation <= low the result is the night setting (temperature, brightness
\* and all three gammas, bit for bit) and for every elevation >= high it is
\* the day setting; with low = -6, high = 3, night 3500K and day 5500K it
\* gives 3500K at -6 degrees and 5500K at 3 degrees.
C16_InterpolateClamps ==
    Interpolated /\ RLt(scheme.low, scheme.high) =>
        /\ RLe(solar_elev, scheme.low) => color_setting = scheme.night
        /\ RLe(scheme.high, solar_elev) => color_setting = scheme.day
        /\ ( /\ scheme.low = DInt(-6) /\ scheme.high = DInt(3)
             /\ scheme.night.temp = 3500 /\ scheme.day.temp = 5500 ) =>
              /\ solar_elev = DInt(-6) => color_setting.temp = 3500
              /\ solar_elev = DInt(3) => color_setting.temp = 5500

\* the scheme was interpolated strictly below its lower threshold, where the
\* unclamped factor is negative, and its two settings differ
C16_Witness ==
    /\ Interpolated
    /\ RLt(solar_elev, scheme.low)
    /\ scheme.night # scheme.day
    /\ color_setting = scheme.night
    /\ color_setting # scheme.day

\* the share of the day setting at an elevation between the thresholds
DayShare(s, e) == RDiv(RSub(e, s.low), RSub(s.high, s.low))

\* the exact blend (1 - alpha) * x + alpha * y of the scheme at solar_elev
ExactBlend(x, y) ==
    RAdd(RMul(RSub(RInt(1), DayShare(scheme, solar_elev)), x),
         RMul(DayShare(scheme, solar_elev), y))

\* the scheme has been interpolated between its thresholds
Between ==
    /\ Interpolated /\ RLt(scheme.low, scheme.high)
    /\ RLe(scheme.low, solar_elev) /\ RLe(solar_elev, scheme.high)

-----------------------------------------------------------------------------
\* adjustment_alpha + short_trans_delta * 0.1 / short_trans_len
Stepped(s) ==
    RAdd(s.adjustment_alpha, Rat(s.short_trans_delta, 10 * s.short_trans_len))

\* the stepped value is <= 0.0 or >= 1.0
SteppedOut(s) == RLe(Stepped(s), RInt(0)) \/ RLe(RInt(1), Stepped(s))

\* C13: adjust_transition_alpha is idempotent once terminal: a call made
\* while short_trans_delta = 0 leaves adjustment_alpha and short_trans_delta
\* unchanged, so any number of further calls does.
C13_AdvanceIdempotent ==
    [][op' = "advance" /\ scheme.short_trans_delta = 0 =>
          /\ scheme'.adjustment_alpha = scheme.adjustment_alpha
          /\ scheme'.short_trans_delta = 0]_vars

\* two calls in a row were made on a scheme whose exit fade had completed
C13_Witness ==
    /\ op = "advance"
    /\ scheme.short_trans_delta = 0
    /\ scheme.short_trans_len = 2
    /\ scheme.adjustment_alpha = DInt(1)

\* C14: each call of adjust_transition_alpha changes adjustment_alpha by
\* short_trans_delta * 0.1 / short_trans_len; the transition is marked
\* complete (short_trans_delta = 0) exactly when the stepped value is <= 0 or
\* >= 1, and the value is clamped to [0, 1].  After any sequence of advances
\* and re-arms adjustment_alpha is in [0, 1] and short_trans_delta is in
\* {-1, 0, 1}, and a delta of 0 becomes non-zero only by the signal handler.
\* The f64 held by the program stays within a ten-thousandth of the exact sum.
C14_AdvanceStep ==
    /\ [][op' = "advance" =>
             /\ RVal(scheme'.adjustment_alpha) =
                   RMax(RInt(0), RMin(RInt(1), Stepped(scheme)))
             /\ scheme'.short_trans_delta = 0 <=> SteppedOut(scheme)
             /\ ~SteppedOut(scheme) =>
                   /\ scheme'.short_trans_delta = scheme.short_trans_delta
                   /\ RSub(scheme'.adjustment_alpha, scheme.adjustment_alpha)
                         = Rat(scheme.short_trans_delta,
                               10 * scheme.short_trans_len)]_vars
    /\ [](/\ DLe(DZero, scheme.adjustment_alpha)
          /\ DLe(scheme.adjustment_alpha, DOne)
          /\ TracksExact(scheme.adjustment_alpha)
          /\ scheme.short_trans_delta \in {-1, 0, 1})
    /\ [][scheme.short_trans_delta = 0 /\ scheme'.short_trans_delta # 0 =>
             op' = "rearm"]_vars

\* the advance that brought a startup fade exactly to 0.0 and stopped it
C14_Witness ==
    /\ op = "advance"
    /\ scheme.short_trans_len = 10
    /\ scheme.short_trans_delta = 0
    /\ scheme.adjustment_alpha = DInt(0)

\* C18: a tick that starts with the short transition active advances the
\* transition first and then blends with the advanced alpha:
\* temp = trunc(alpha * 6500 + (1 - alpha) * periodTemp), the sum computed
\* in f64 (it is the truncation of the exact sum, or one less where the
\* exact sum is an integer that the f64 sum falls short of),
\* brightness = alpha * 1.0 + (1 - alpha) * periodBrightness, computed in
\* f64 as well (within a ten-thousandth of the exact sum), and the gammas
\* are those of the interpolation.  A tick that starts with it inactive
\* takes the interpolated setting unmodified, whatever adjustment_alpha is.
C18_TickBlend ==
    [][op' = "tick" =>
          \A ip \in {interpolate_color_settings(scheme, solar_elev')},
             al \in {scheme'.adjustment_alpha} :
          \A exact \in {RAdd(RMul(al, RInt(NEUTRAL_TEMP)),
                             RMul(RSub(RInt(1), al), RInt(ip.temp)))} :
          LET rest == RSub(RInt(1), al)
          IN IF scheme.short_trans_delta # 0
             THEN /\ RVal(al) = RMax(RInt(0), RMin(RInt(1), Stepped(scheme)))
                  /\ color_setting'.temp =
                        F64Trunc(F64Add(F64MulInt(al.f, NEUTRAL_TEMP),
                                        F64MulInt(F64Sub(F64FromInt(1), al.f),
                                                  ip.temp)))
                  /\ color_setting'.temp \in {RTrunc(exact) - 1, RTrunc(exact)}
                  /\ exact.d # 1 => color_setting'.temp = RTrunc(exact)
                  /\ F64Of(color_setting'.brightness) =
                        F64Add(F64Mul(al.f, F64FromInt(1)),
                               F64Mul(F64Sub(F64FromInt(1), al.f),
                                      F64Of(ip.brightness)))
                  /\ RVal(color_setting'.brightness) =
                        RAdd(al, RMul(rest, ip.brightness))
                  /\ TracksExact(color_setting'.brightness)
                  /\ color_setting'.gamma = ip.gamma
             ELSE /\ color_setting' = ip
                  /\ scheme' = scheme]_vars

\* a tick that started inactive with adjustment_alpha = 1.0 took a setting
\* that is not neutral
C18_Witness ==
    /\ op = "tick"
    /\ scheme.short_trans_delta = 0
    /\ scheme.adjustment_alpha = DInt(1)
    /\ color_setting.temp # NEUTRAL_TEMP
    /\ color_setting = interpolate_color_settings(scheme, solar_elev)

-----------------------------------------------------------------------------
\* C19: restore is a round trip.  After start() and any sequence of
\* successful set_temperature calls, a successful restore() leaves the ramp
\* of every CRTC equal, element for element, to the ramp the server held
\* when start() captured it; the snapshots are never modified by
\* set_temperature or restore; and a further restore() gives the same ramps.
C19_RestoreRoundTrip ==
    /\ \A i \in 1..Len(crtcs) :
          /\ crtcs[i].saved_ramps = captured[crtcs[i].id]
          /\ crtcs[i].ramp_size = Len(captured[crtcs[i].id][1])
    /\ rpc = "restored" =>
          /\ Len(crtcs) = Len(hw)
          /\ \A i \in 1..Len(crtcs) : hw[crtcs[i].id] = captured[crtcs[i].id]

\* the second restore in a row, after two accepted set_temperature calls the
\* last of which left a tinted ramp on a CRTC that started calibrated
C19_Witness ==
    /\ rpc = "restored"
    /\ rcalls.restore = 2
    /\ rcalls.set = 2
    /\ rsetting.temp # NEUTRAL_TEMP
    /\ Len(hw) = 2
    /\ hw[2] = captured[2]
    /\ hw[2] # LinearRamps(3, 3)

\* C20: set_temperature never derives a ramp from the one applied before:
\* the ramps an accepted set_temperature(s) leaves on a CRTC are a function
\* of s and of what start() captured for that CRTC only, the same on the
\* first call and after any sequence of earlier calls.
C20_NoCumulativeDrift ==
    rpc = "set" =>
        \A i \in 1..Len(crtcs) :
           LET n == Len(captured[crtcs[i].id][1])
           IN hw[crtcs[i].id] = colorramp_fill(LinearRamps(n, n), rsetting)

\* a second accepted set_temperature in a row, with a tinting setting
C20_Witness ==
    /\ rpc = "set"
    /\ rcalls.set = 2
    /\ rcalls.restore = 0
    /\ rsetting.temp # NEUTRAL_TEMP
    /\ hw[1] # captured[1]

-----------------------------------------------------------------------------
\* C21: for every captured CRTC and every ramp index, the base value that
\* set_temperature scales by the multiplier, gamma and brightness is the
\* value start() captured for that CRTC at that index: the ramps an accepted
\* set_temperature leaves are colorramp_fill applied to the captured ramps.
C21_BaseIsCaptured ==
    rpc = "set" =>
        \A i \in 1..Len(crtcs) :
           hw[crtcs[i].id] = colorramp_fill(captured[crtcs[i].id], rsetting)

-----------------------------------------------------------------------------
\* the X server reports a RandR major version other than 1 or a minor
\* version below 3
VersionUnsupported == server_version[1] # 1 \/ server_version[2] < 3

\* C22: the RandR backend validates the protocol version and fails fast.
\* When the server reports a major version other than 1 or a minor version
\* below 3, an init() that gets the reply returns UnsupportedVersion, init()
\* never succeeds, no ramp is captured and no ramp is ever written.
C22_UnsupportedVersionFailsFast ==
    /\ [](VersionUnsupported =>
             /\ rpc \in {"none", "conn_error", "xcb_error", "unsupported_version"}
             /\ crtcs = <<>>
             /\ captured = <<>>
             /\ rcalls = [set |-> 0, restore |-> 0])
    /\ [](rpc = "unsupported_version" => VersionUnsupported)
    /\ [][VersionUnsupported => hw' = hw]_vars
    /\ [][VersionUnsupported /\ rpc = "none" /\ rpc' # "none" =>
             rpc' \in {"conn_error", "xcb_error", "unsupported_version"}]_vars

\* init() has returned UnsupportedVersion for a server that reports 1.2
C22_Witness ==
    /\ server_version = <<1, 2>>
    /\ rpc = "unsupported_version"
    /\ hw # <<>>

-----------------------------------------------------------------------------
\* the loop of run_continual_mode has been left
LoopLeft ==
    /\ Continual
    /\ ctl \in {"restore", "exited"}
    /\ exit_path \in {"fade", "forced", "set_failed"}

\* C23: on every loop exit (fade completion, forced exit, backend error) the
\* ticker has been told to stop and has left its receive/sleep/send cycle:
\* once the loop is left the ticker is neither sleeping toward a tick nor
\* blocked delivering a tick that nobody will receive.
C23_TickerStopsOnExit ==
    LoopLeft => tpc \notin {"sleeping", "send"}

-----------------------------------------------------------------------------
\* a step the ticker thread takes on its own: thread::sleep returns
TickerOwnStep == tpc = "sleeping" /\ tpc' = "send"

\* a step the signal thread takes on its own, or the delivery of a signal
SignalOwnStep ==
    \/ spc = "iter" /\ spc' = "send"
    \/ sig_delivered' # sig_delivered

\* C24: only the control loop mutates the TransitionScheme and calls the
\* backend.  Every step the ticker or the signal thread takes on its own
\* leaves the scheme, the exiting flag, the remembered setting and period
\* and the backend state unchanged; the scheme changes only in a branch of
\* the select, and backend calls are made only by the main thread.
C24_OnlyControlLoopMutates ==
    /\ [][TickerOwnStep \/ SignalOwnStep =>
             UNCHANGED <<scheme, exiting, prev_color_setting, prev_period,
                         color_setting, backendVars, failed, ctl, exit_code,
                         sleep_req>>]_vars
    /\ [][scheme' # scheme \/ exiting' # exiting => TickStep \/ SignalStep]_vars
    /\ [][backendVars' # backendVars =>
             TickStep \/ ctl \in {"start", "apply", "restore"}]_vars

\* the ticker has woken and offers a tick while the exit fade is armed and
\* not yet advanced
C24_Witness ==
    /\ tpc = "send"
    /\ exiting
    /\ scheme.short_trans_delta = 1
    /\ scheme.adjustment_alpha = DLit(1, 10)

-----------------------------------------------------------------------------
\* C25: the backend protocol order is respected in every run mode.
\* set_temperature and restore are only called, and the main thread is only
\* at a point from which it calls them, after start() has returned Ok; start()
\* is called at most once, and exactly once in every run of Reset, OneShot,
\* Manual or Continual mode whose backend initialisation succeeded.
C25_StartBeforeUse ==
    /\ calls.start <= 1
    /\ (calls.set > 0 \/ calls.restore > 0) =>
          calls.start = 1 /\ failed # "start" /\ failed # "init"
    /\ ctl \in {"apply", "send0", "send_sleep", "select", "restore"} =>
          calls.start = 1 /\ failed = "none"
    /\ (ctl = "exited" /\ mode.tag # "Print" /\ failed # "init") =>
          calls.start = 1

\* a Manual run has called start() once and then set_temperature once
C25_Witness ==
    /\ mode.tag = "Manual"
    /\ ctl = "exited"
    /\ calls.start = 1
    /\ calls.set = 1
    /\ last_ok.temp = mode.temp

-----------------------------------------------------------------------------
\* the neutral setting of Mode::Reset
NeutralSetting ==
    [temp |-> 6500, gamma |-> <<DInt(1), DInt(1), DInt(1)>>,
     brightness |-> DInt(1)]

\* C26: backend calls per run mode.  In OneShot, Manual and Reset mode
\* set_temperature is invoked at most once, exactly once when the backend
\* has started, and restore never; the setting passed is the interpolation
\* (OneShot), the manual temperature with the day gammas and brightness
\* (Manual) or the neutral setting (Reset).  Print mode invokes no backend
\* operation at all.  restore is invoked only when Continual mode leaves its
\* loop by a break.
C26_CallsPerMode ==
    /\ mode.tag \in {"OneShot", "Manual", "Reset"} =>
          /\ calls.set <= 1
          /\ calls.restore = 0
          /\ (ctl = "exited" /\ failed \notin {"init", "start"}) => calls.set = 1
    /\ (mode.tag = "Reset" /\ calls.set = 1) => last_set = NeutralSetting
    /\ (mode.tag = "OneShot" /\ calls.set = 1) =>
          last_set = interpolate_color_settings(scheme, solar_elev)
    /\ (mode.tag = "Manual" /\ calls.set = 1) =>
          /\ last_set.temp = mode.temp
          /\ last_set.gamma = scheme.day.gamma
          /\ last_set.brightness = scheme.day.brightness
    /\ mode.tag = "Print" =>
          /\ calls = NoCalls
          /\ last_call = "none"
          /\ failed = "none"
          /\ ctl \in {"run", "exited"}
    /\ calls.restore > 0 => Continual /\ LoopLeftByBreak

\* a Reset run has ended after its one set_temperature, with the neutral
\* setting accepted and nothing restored
C26_Witness ==
    /\ mode.tag = "Reset"
    /\ ctl = "exited"
    /\ exit_code = 0
    /\ calls = [start |-> 1, set |-> 1, restore |-> 0]
    /\ last_ok = NeutralSetting

-----------------------------------------------------------------------------
\* the control loop is Running or Exiting: the main thread is inside the
\* loop of run_continual_mode or at the sleep_tx.send before it
InLoop == Continual /\ ctl \in {"send0", "send_sleep", "select"}

\* timer_rx.recv() can be taken: the select is waiting and a tick is offered
\* (the timer branch has no further condition)
TickReady == ctl = "select" /\ tpc = "send"

\* C28: inside the loop the three threads never deadlock on the rendezvous
\* channels.  Whenever the main thread is at a sleep_tx.send the ticker is
\* waiting in sleep_rx; whenever the ticker is at timer_tx.send the main
\* thread is at its select; and in every state of the loop a step of the
\* timer cycle (request taken, sleep over, tick received) is possible,
\* whatever the signal thread does, also when it is blocked on its send.
C28_NoRendezvousDeadlock ==
    InLoop =>
        /\ ctl \in {"send0", "send_sleep"} => tpc = "recv" /\ ENABLED SleepRequest
        /\ tpc = "send" => ctl = "select" /\ TickReady
        /\ ENABLED SleepRequest \/ ENABLED TickerWake \/ TickReady

\* the signal thread is blocked on its send while the ticker offers a tick
\* and the loop is at its select
C28_Witness ==
    /\ InLoop
    /\ ctl = "select"
    /\ spc = "send"
    /\ tpc = "send"
    /\ sig_pending = 1

-----------------------------------------------------------------------------
\* C29: liveness of shutdown.  Under fair scheduling, once a termination
\* signal has been delivered the loop eventually processes it (or a backend
\* call fails first); once the loop is exiting the process eventually exits;
\* and an exit of the exiting loop in which no call before restore failed
\* has called restore exactly once, after the fade has completed at
\* alpha = 1.0 unless a second signal forced the exit.
C29_ShutdownLiveness ==
    /\ (sig_delivered > 0) ~> (exiting \/ failed # "none")
    /\ exiting ~> (ctl = "exited")
    /\ [](ctl = "exited" /\ exiting /\ failed \in {"none", "restore"} =>
             /\ calls.restore = 1
             /\ exit_path \in {"fade", "forced"}
             /\ exit_path = "fade" =>
                   /\ scheme.short_trans_delta = 0
                   /\ scheme.adjustment_alpha = DInt(1))

\* one signal was delivered, the fade ran to its end, restore was called and
\* no backend call failed
C29_Witness ==
    /\ Continual
    /\ ctl = "exited"
    /\ sig_delivered = 1
    /\ exit_path = "fade"
    /\ failed = "none"
    /\ calls.restore = 1
    /\ exit_code = 0

-----------------------------------------------------------------------------
\* C30: handling the first termination signal sets exiting and writes only
\* short_trans_delta, short_trans_len and adjustment_alpha of the scheme,
\* leaving adjustment_alpha at its armed start value; it makes no backend
\* call, keeps prev_color_setting, prev_period and the colour setting, sends
\* no timer request and leaves the ticker and its pending delay alone, and
\* the main thread is back at the select.  While exiting, the scheme is then
\* changed by ticks only, so the first fade step waits for the pending tick.
ShortTransFields == {"short_trans_delta", "short_trans_len", "adjustment_alpha"}

C30_FirstSignalOnlyArms ==
    [][ /\ (SignalStep /\ ~exiting) =>
            /\ exiting'
            /\ \A f \in DOMAIN scheme \ ShortTransFields : scheme'[f] = scheme[f]
            /\ short_transition(scheme')
            /\ scheme'.adjustment_alpha = DLit(1, 10)
            /\ ctl' = "select"
            /\ UNCHANGED <<backendVars, failed, applied, exit_path, exit_code,
                           color_setting, prev_color_setting, prev_period,
                           sleep_req, sleep_ms, tpc>>
        /\ (exiting /\ scheme' # scheme) => TickStep ]_vars

\* the first signal has been handled while the ticker sleeps through a delay
\* requested with 5000 ms: the fade is armed and no step of it is taken yet
C30_Witness ==
    /\ Continual
    /\ exiting
    /\ ctl = "select"
    /\ tpc = "sleeping"
    /\ sleep_ms = LongDelayMs
    /\ scheme.short_trans_delta = 1
    /\ scheme.adjustment_alpha = DLit(1, 10)
    /\ failed = "none"

=========================================================================
